---- MODULE Spec2Model ----
(***************************************************************************)
(* Model of src/operations/source.js of mcp-da-live-admin: the retrying    *)
(* executor retryWithBackoff and the asset workflow uploadAsset            *)
(* (local read -> upload -> preview -> publish).                           *)
(*                                                                         *)
(* JavaScript runs one continuation at a time, so one action is one        *)
(* stretch of code between two awaits: it starts when a promise (fn, a     *)
(* fetch, a timer) settles and runs to the next await, return or throw.    *)
(* Error messages are strings and are classified by substring search, as   *)
(* the code does.                                                          *)
(***************************************************************************)
EXTENDS Integers, Sequences, FiniteSets, TLC

VARIABLES
    rx,        \* the locals of one retryWithBackoff invocation under test
    fnCalls,   \* how many times that invocation has called fn
    fnLog,     \* the outcomes fn has produced, in order
    slept,     \* the delays that invocation has waited, in order
    up,        \* the locals and the observable trace of one uploadAsset invocation
    baseline,  \* the result of an earlier uploadAsset call whose triggers both answered 2xx
    up2,       \* a second uploadAsset invocation, running concurrently with the first
    remote,    \* what the remote service holds for the path the two invocations target
    adm        \* one get, create or delete operation through daAdminRequest

vars == <<rx, fnCalls, fnLog, slept, up, baseline, up2, remote, adm>>

----------------------------------------------------------------------------
(* Bounds of the model *)

\* largest max-retry value the retry harness is started with
MaxRetriesBound == 3

\* how many times the tool handler is called in one behaviour
MaxInvocations == 2

----------------------------------------------------------------------------
(* JavaScript values *)

\* the value undefined
Undefined == "<undefined>"

\* String.prototype.includes
Includes(s, p) ==
    \E i \in 1..(Len(s) - Len(p) + 1) : SubSeq(s, i, i + Len(p) - 1) = p

----------------------------------------------------------------------------
(* retryWithBackoff(fn, maxRetries, initialDelay) *)

\* mutant: the classification misses connection resets
isRetryableNoReset(message) ==
    \/ Includes(message, "Failed to fetch")
    \/ Includes(message, "SSL")
    \/ Includes(message, "TLS")
    \/ Includes(message, "Network")

\* mutant: every error is classified transient
isRetryableAlways(message) == Len(message) >= 0

isRetryable(message) ==
    \/ Includes(message, "Failed to fetch")
    \/ Includes(message, "SSL")
    \/ Includes(message, "TLS")
    \/ Includes(message, "Network")
    \/ Includes(message, "ECONNRESET")

\* mutant: linear instead of exponential backoff
backoffDelayLinear(initialDelay, attempt) == initialDelay * (attempt + 1)

backoffDelay(initialDelay, attempt) == initialDelay * 2^attempt

\* fn's outcomes: the promise fulfils with a value or rejects with an error
Fulfilled(v) == [ok |-> TRUE, value |-> v, message |-> ""]
Rejected(m) == [ok |-> FALSE, value |-> Undefined, message |-> m]

\* The call of retryWithBackoff up to its first await: attempt 0 calls fn.
RetryStart(maxRetries, initialDelay) ==
    [ maxRetries   |-> maxRetries,
      initialDelay |-> initialDelay,
      attempt      |-> 0,
      lastError    |-> Undefined,
      delay        |-> 0,
      pc           |-> IF 0 <= maxRetries THEN "fn" ELSE "thrown",
      value        |-> Undefined,
      error        |-> Undefined ]

\* mutant: a success does not leave the loop unless it is the last attempt
RetrySettleNoReturn(r, outcome) ==
    IF outcome.ok /\ r.attempt = r.maxRetries
    THEN [r EXCEPT !.pc = "returned", !.value = outcome.value]
    ELSE IF outcome.ok
    THEN [r EXCEPT !.value = outcome.value, !.pc = "sleep",
                   !.delay = backoffDelay(r.initialDelay, r.attempt)]
    ELSE IF ~isRetryable(outcome.message) \/ r.attempt = r.maxRetries
         THEN [r EXCEPT !.lastError = outcome.message, !.pc = "thrown",
                        !.error = outcome.message]
         ELSE [r EXCEPT !.lastError = outcome.message, !.pc = "sleep",
                        !.delay = backoffDelay(r.initialDelay, r.attempt)]

\* mutant: the error of the first failed attempt is the one thrown
RetrySettleFirstError(r, outcome) ==
    IF outcome.ok
    THEN [r EXCEPT !.pc = "returned", !.value = outcome.value]
    ELSE LET kept == IF r.lastError = Undefined THEN outcome.message ELSE r.lastError
         IN IF ~isRetryable(outcome.message) \/ r.attempt = r.maxRetries
            THEN [r EXCEPT !.lastError = kept, !.pc = "thrown", !.error = kept]
            ELSE [r EXCEPT !.lastError = kept, !.pc = "sleep",
                           !.delay = backoffDelay(r.initialDelay, r.attempt)]

\* mutant: the last attempt is not recognised, its failure is followed by a wait
RetrySettleWaitsAfterLast(r, outcome) ==
    IF outcome.ok
    THEN [r EXCEPT !.pc = "returned", !.value = outcome.value]
    ELSE IF ~isRetryable(outcome.message)
         THEN [r EXCEPT !.lastError = outcome.message, !.pc = "thrown",
                        !.error = outcome.message]
         ELSE [r EXCEPT !.lastError = outcome.message, !.pc = "sleep",
                        !.delay = backoffDelay(r.initialDelay, r.attempt)]

\* fn's promise settles: the return of the try block, or the catch block up to
\* its throw or its await of the backoff timer.
RetrySettle(r, outcome) ==
    IF outcome.ok
    THEN [r EXCEPT !.pc = "returned", !.value = outcome.value]
    ELSE IF ~isRetryable(outcome.message) \/ r.attempt = r.maxRetries
         THEN [r EXCEPT !.lastError = outcome.message, !.pc = "thrown",
                        !.error = outcome.message]
         ELSE [r EXCEPT !.lastError = outcome.message, !.pc = "sleep",
                        !.delay = backoffDelay(r.initialDelay, r.attempt)]

\* mutant: the attempt counter is not advanced
RetryWakeNoIncrement(r) ==
    IF r.attempt <= r.maxRetries
    THEN [r EXCEPT !.delay = 0, !.pc = "fn"]
    ELSE [r EXCEPT !.delay = 0, !.pc = "thrown", !.error = r.lastError]

\* The backoff timer fires: attempt++, the loop test, and the next call of fn
\* (or the throw after the loop).
RetryWake(r) ==
    IF r.attempt + 1 <= r.maxRetries
    THEN [r EXCEPT !.attempt = r.attempt + 1, !.delay = 0, !.pc = "fn"]
    ELSE [r EXCEPT !.attempt = r.attempt + 1, !.delay = 0, !.pc = "thrown",
                   !.error = r.lastError]

\* 1 when the stretch of code that produced r ended in a call of fn
CallsFn(r) == IF r.pc = "fn" THEN 1 ELSE 0

----------------------------------------------------------------------------
(* Inputs *)

\* initial delays: the default and the two values the callers configure
InitialDelays == {500, 1000}

\* messages of the errors a transport raises
TransportErrors ==
    { "Failed to fetch",
      "ERR_SSL_BAD_RECORD_MAC_ALERT",
      "socket disconnected before secure TLS connection was established",
      "Network request failed",
      "read ECONNRESET",
      "fetch failed" }

\* messages of other errors an operation raises
OtherErrors == { "DA upload failed: 500", "network timeout" }

FnValues == { "v1", "v2" }

FnOutcomes ==
    { Fulfilled(v) : v \in FnValues }
        \cup { Rejected(m) : m \in TransportErrors \cup OtherErrors }

----------------------------------------------------------------------------
(* The retry harness: one invocation retryWithBackoff(fn, R, d) whose fn    *)
(* settles each call in any of the ways of FnOutcomes.                      *)

RetryIdle ==
    [ maxRetries |-> 0, initialDelay |-> 0, attempt |-> 0, lastError |-> Undefined,
      delay |-> 0, pc |-> "idle", value |-> Undefined, error |-> Undefined ]

\* fn's promise settles
FnSettles ==
    /\ rx.pc = "fn"
    /\ \E o \in FnOutcomes :
          /\ rx' = RetrySettle(rx, o)
          /\ fnLog' = Append(fnLog, o)
    /\ UNCHANGED <<fnCalls, slept, up, baseline, up2, remote, adm>>

\* the backoff timer fires
BackoffElapses ==
    /\ rx.pc = "sleep"
    /\ rx' = RetryWake(rx)
    /\ slept' = Append(slept, rx.delay)
    /\ fnCalls' = fnCalls + CallsFn(rx')
    /\ UNCHANGED <<fnLog, up, baseline, up2, remote, adm>>

----------------------------------------------------------------------------
(* uploadAsset(org, repo, path, localFilePath, contentType) *)

UploadMaxRetries == 3
UploadInitialDelay == 1000
PreviewMaxRetries == 2
PreviewInitialDelay == 500
PreviewSettleDelay == 1000
PublishMaxRetries == 2
PublishInitialDelay == 500
PublishSettleDelay == 800

\* the characters String.prototype.toLowerCase changes in the inputs of the model
UpperCase == "ABCDEFGHIJKLMNOPQRSTUVWXYZ"
LowerCase == "abcdefghijklmnopqrstuvwxyz"

LowerChar(c) ==
    IF \E i \in 1..Len(UpperCase) : SubSeq(UpperCase, i, i) = c
    THEN LET i == CHOOSE i \in 1..Len(UpperCase) : SubSeq(UpperCase, i, i) = c
         IN SubSeq(LowerCase, i, i)
    ELSE c

RECURSIVE toLowerCase(_)
toLowerCase(s) ==
    IF Len(s) = 0 THEN ""
    ELSE LowerChar(SubSeq(s, 1, 1)) \o toLowerCase(SubSeq(s, 2, Len(s)))

\* s.split(sep).pop() for a one-character sep: what follows the last sep, or
\* all of s when sep does not occur
SplitPop(s, sep) ==
    LET at == {i \in 1..Len(s) : SubSeq(s, i, i) = sep}
    IN IF at = {} THEN s
       ELSE LET last == CHOOSE i \in at : \A j \in at : j <= i
            IN SubSeq(s, last + 1, Len(s))

\* the own properties of the object literal mimeTypes
mimeTypes ==
    [ png  |-> "image/png",
      jpg  |-> "image/jpeg",
      jpeg |-> "image/jpeg",
      gif  |-> "image/gif",
      webp |-> "image/webp",
      svg  |-> "image/svg+xml",
      pdf  |-> "application/pdf",
      mp4  |-> "video/mp4",
      webm |-> "video/webm" ]

\* the properties mimeTypes inherits from Object.prototype whose names are
\* lower-case (ext is lower-cased before the lookup); their values are truthy
\* objects, written here by name
InheritedLowerCase ==
    [ constructor |-> "<Object.prototype.constructor>",
      __proto__   |-> "<Object.prototype>" ]

\* mimeTypes[ext]
MimeLookup(ext) ==
    IF ext \in DOMAIN mimeTypes THEN mimeTypes[ext]
    ELSE IF ext \in DOMAIN InheritedLowerCase THEN InheritedLowerCase[ext]
    ELSE Undefined

\* !v for the values a content type takes
Falsy(v) == v = Undefined \/ v = ""

\* the content type the upload uses
ResolveMimeType(contentType, localFilePath) ==
    IF ~Falsy(contentType) THEN contentType
    ELSE LET ext == toLowerCase(SplitPop(localFilePath, "."))
         IN IF Falsy(MimeLookup(ext)) THEN "application/octet-stream"
            ELSE MimeLookup(ext)

\* response.ok
Ok(status) == 200 <= status /\ status <= 299

\* How the exchange of one request settles: a response has arrived (and, for a
\* non-2xx answer to the upload, its body has been read), or the exchange was
\* rejected with an error, at the fetch or while the error body was read.
Response(status) == [rejected |-> FALSE, status |-> status, message |-> ""]
Rejection(m) == [rejected |-> TRUE, status |-> 0, message |-> m]

\* readFileSync(localFilePath): the bytes, or a thrown error
ReadFileSync(file, localFilePath) ==
    IF file.exists
    THEN [ok |-> TRUE, length |-> file.size, message |-> ""]
    ELSE [ok |-> FALSE, length |-> 0,
          message |-> "ENOENT: no such file or directory, open '"
                          \o localFilePath \o "'"]

\* mutant: a non-2xx answer to the upload is logged, nothing is thrown
UploadFnLogsOnly(f) ==
    IF f.rejected THEN Rejected(f.message) ELSE Fulfilled(Undefined)

\* the fn of the upload step, from the point its fetch settles
UploadFn(f) ==
    IF f.rejected THEN Rejected(f.message)
    ELSE IF ~Ok(f.status) THEN Rejected("DA upload failed: " \o ToString(f.status))
    ELSE Fulfilled(Undefined)

\* mutant: a non-2xx answer of a trigger is thrown, like the upload's
TriggerFnThrows(f) ==
    IF f.rejected THEN Rejected(f.message)
    ELSE IF ~Ok(f.status) THEN Rejected("Trigger failed: " \o ToString(f.status))
    ELSE Fulfilled(Undefined)

\* the fn of the preview and of the publish step, from the point its fetch
\* settles: a non-2xx answer is logged, nothing is thrown
TriggerFn(f) ==
    IF f.rejected THEN Rejected(f.message) ELSE Fulfilled(Undefined)

\* what the console shows of an exchange: the line fn writes for a 2xx answer
\* ("ok") or for another answer ("failed <status>"), or the message of the
\* error the exchange was rejected with
ExchangeLog(f) ==
    IF f.rejected THEN f.message
    ELSE IF Ok(f.status) THEN "ok"
    ELSE "failed " \o ToString(f.status)

\* mutant: success reports whether the triggers were accepted
BuildResultChecksTriggers(u) ==
    [ success     |-> u.previewLog = "ok" /\ u.publishLog = "ok",
      path        |-> u.args.path,
      previewUrl  |-> "https://main--" \o u.args.repo \o "--" \o u.args.org
                          \o ".aem.page/" \o u.args.path,
      liveUrl     |-> "https://main--" \o u.args.repo \o "--" \o u.args.org
                          \o ".aem.live/" \o u.args.path,
      contentType |-> u.mimeType,
      size        |-> u.size ]

\* the object uploadAsset returns
BuildResult(u) ==
    [ success     |-> TRUE,
      path        |-> u.args.path,
      previewUrl  |-> "https://main--" \o u.args.repo \o "--" \o u.args.org
                          \o ".aem.page/" \o u.args.path,
      liveUrl     |-> "https://main--" \o u.args.repo \o "--" \o u.args.org
                          \o ".aem.live/" \o u.args.path,
      contentType |-> u.mimeType,
      size        |-> u.size ]

\* the message of the error the catch block of uploadAsset throws
CatchMessage(message) ==
    IF \/ Includes(message, "Failed to fetch")
       \/ Includes(message, "SSL")
       \/ Includes(message, "TLS")
    THEN "Network error uploading to DA after multiple retries. This could be:\n"
           \o "- SSL/TLS issue (ERR_SSL_BAD_RECORD_MAC_ALERT)\n"
           \o "- Network connectivity problem\n"
           \o "- DA API rate limiting\n"
           \o "- Server connection limit\n"
           \o "Original error: " \o message \o "\n\nTry again in a few moments."
    ELSE "Failed to upload asset to DA: " \o message

\* the catch block of uploadAsset
Catch(u, message) ==
    [u EXCEPT !.pc = "thrown", !.caught = message, !.error = CatchMessage(message)]

\* a step's call of retryWithBackoff, up to the await of its first fetch
StartStep(u, step, maxRetries, initialDelay) ==
    [u EXCEPT !.pc = "fetch", !.step = step,
              !.retry = RetryStart(maxRetries, initialDelay),
              !.trace = Append(u.trace, step), !.inFlight = u.inFlight + 1]

\* no invocation yet
UpIdle(args, file) ==
    [ args |-> args, file |-> file, nth |-> 0,
      pc |-> "idle", step |-> "none", retry |-> RetryIdle,
      mimeType |-> Undefined, size |-> 0,
      result |-> {}, caught |-> Undefined, error |-> Undefined,
      trace |-> <<>>, timers |-> <<>>, inFlight |-> 0,
      uploadLog |-> "none", previewLog |-> "none", publishLog |-> "none" ]

\* mutant: a failed read is retried once before it is given up
UploadInvokeRereads(u) ==
    LET fresh == [UpIdle(u.args, u.file) EXCEPT !.nth = u.nth + 1]
        read == ReadFileSync(u.file, u.args.localFilePath)
    IN IF ~read.ok
       THEN Catch([fresh EXCEPT !.step = "read", !.trace = <<"read", "read">>],
                  read.message)
       ELSE StartStep([fresh EXCEPT !.trace = <<"read">>, !.size = read.length,
                          !.mimeType = ResolveMimeType(u.args.contentType,
                                                       u.args.localFilePath)],
                      "upload", UploadMaxRetries, UploadInitialDelay)

\* The call of uploadAsset up to its first await: the local read, the content
\* type, and the first upload request (or the catch block when the read throws).
UploadInvoke(u) ==
    LET fresh == [UpIdle(u.args, u.file) EXCEPT !.nth = u.nth + 1]
        read == ReadFileSync(u.file, u.args.localFilePath)
    IN IF ~read.ok
       THEN Catch([fresh EXCEPT !.step = "read", !.trace = <<"read">>], read.message)
       ELSE StartStep([fresh EXCEPT !.trace = <<"read">>, !.size = read.length,
                          !.mimeType = ResolveMimeType(u.args.contentType,
                                                       u.args.localFilePath)],
                      "upload", UploadMaxRetries, UploadInitialDelay)

\* mutant: the publish step does not wait for the settle delay after preview
AfterStepNoSettle(u) ==
    IF u.step = "upload"
    THEN StartStep(u, "preview", PreviewMaxRetries, PreviewInitialDelay)
    ELSE IF u.step = "preview"
    THEN StartStep(u, "publish", PublishMaxRetries, PublishInitialDelay)
    ELSE [u EXCEPT !.pc = "settle"]

\* what follows a step whose retryWithBackoff returned
AfterStep(u) ==
    IF u.step = "upload"
    THEN StartStep(u, "preview", PreviewMaxRetries, PreviewInitialDelay)
    ELSE [u EXCEPT !.pc = "settle"]

\* mutant: a failed upload request does not stop the workflow
UploadOnFetchGoesOn(u, f) ==
    LET o == IF u.step = "upload" THEN UploadFn(f) ELSE TriggerFn(f)
        r == RetrySettle(u.retry, o)
        v == [u EXCEPT !.retry = r, !.inFlight = u.inFlight - 1,
                 !.uploadLog = IF u.step = "upload" THEN ExchangeLog(f) ELSE @,
                 !.previewLog = IF u.step = "preview" THEN ExchangeLog(f) ELSE @,
                 !.publishLog = IF u.step = "publish" THEN ExchangeLog(f) ELSE @]
    IN IF r.pc = "sleep" THEN [v EXCEPT !.pc = "backoff"]
       ELSE IF r.pc = "thrown" /\ u.step # "upload" THEN Catch(v, r.error)
       ELSE AfterStep(v)

\* The fetch of the current step settles: the rest of fn, the try or catch of
\* retryWithBackoff, and what uploadAsset does with its outcome.
UploadOnFetch(u, f) ==
    LET o == IF u.step = "upload" THEN UploadFn(f) ELSE TriggerFn(f)
        r == RetrySettle(u.retry, o)
        v == [u EXCEPT !.retry = r, !.inFlight = u.inFlight - 1,
                 !.uploadLog = IF u.step = "upload" THEN ExchangeLog(f) ELSE @,
                 !.previewLog = IF u.step = "preview" THEN ExchangeLog(f) ELSE @,
                 !.publishLog = IF u.step = "publish" THEN ExchangeLog(f) ELSE @]
    IN IF r.pc = "sleep" THEN [v EXCEPT !.pc = "backoff"]
       ELSE IF r.pc = "thrown" THEN Catch(v, r.error)
       ELSE AfterStep(v)

\* The backoff timer of the current step fires: the next attempt's request.
UploadOnBackoff(u) ==
    LET r == RetryWake(u.retry)
        v == [u EXCEPT !.retry = r, !.timers = Append(u.timers, u.retry.delay),
                       !.trace = Append(u.trace, "backoff")]
    IN IF r.pc = "fn"
       THEN [v EXCEPT !.pc = "fetch", !.trace = Append(v.trace, u.step),
                      !.inFlight = u.inFlight + 1]
       ELSE Catch(v, r.error)

\* mutant: the promise of the settle wait is never resolved
UploadOnSettleNeverResolves(u) == u

\* The settle timer after preview or publish fires: the publish step, or the
\* result.
UploadOnSettle(u) ==
    IF u.step = "preview"
    THEN StartStep([u EXCEPT !.timers = Append(u.timers, PreviewSettleDelay),
                             !.trace = Append(u.trace, "settle")],
                   "publish", PublishMaxRetries, PublishInitialDelay)
    ELSE [u EXCEPT !.timers = Append(u.timers, PublishSettleDelay),
                   !.trace = Append(u.trace, "settle"),
                   !.pc = "returned", !.result = {BuildResult(u)}]

----------------------------------------------------------------------------
(* Inputs of uploadAsset and answers of its environment *)

Orgs == { "acme" }
Repos == { "site" }
Paths == { "assets/img.png" }
LocalFilePaths ==
    { "./dam/img.png", "./dam/Scan.PDF", "./dam/blob.xyz", "./dam/x.constructor" }
ContentTypes == { Undefined, "image/x-custom" }

UploadArgs ==
    [ org : Orgs, repo : Repos, path : Paths,
      localFilePath : LocalFilePaths, contentType : ContentTypes ]

\* the local file: absent, or present with its length in bytes
LocalFiles == { [exists |-> FALSE, size |-> 0], [exists |-> TRUE, size |-> 2048] }

Statuses == { 200, 204, 404, 500 }

FetchOutcomes ==
    { Response(s) : s \in Statuses } \cup { Rejection(m) : m \in TransportErrors }

\* an invocation that is never made
NoCall == UpIdle(CHOOSE a \in UploadArgs : TRUE, CHOOSE f \in LocalFiles : TRUE)

\* the remote service holds nothing for the path
RemoteEmpty ==
    [ source |-> {}, preview |-> {}, live |-> {},
      previewBy |-> "none", liveBy |-> "none" ]

\* no operation through daAdminRequest
AdmIdle ==
    [ op |-> "none", pc |-> "idle", calls |-> 0, url |-> "", method |-> "",
      response |-> {}, bodyRead |-> "pending", result |-> {},
      error |-> Undefined ]

----------------------------------------------------------------------------
(* The tool handler da_admin_upload_asset, called up to MaxInvocations      *)
(* times, one call after the other, with the same arguments and local file. *)

\* the handler is called
Invoke ==
    /\ up.pc \in {"idle", "returned", "thrown"}
    /\ up.nth < MaxInvocations
    /\ up' = UploadInvoke(up)
    /\ UNCHANGED <<rx, fnCalls, fnLog, slept, baseline, up2, remote, adm>>

\* the request in flight settles
FetchSettles ==
    /\ up.pc = "fetch"
    /\ \E f \in FetchOutcomes : up' = UploadOnFetch(up, f)
    /\ UNCHANGED <<rx, fnCalls, fnLog, slept, baseline, up2, remote, adm>>

\* the backoff timer fires
BackoffFires ==
    /\ up.pc = "backoff"
    /\ up' = UploadOnBackoff(up)
    /\ UNCHANGED <<rx, fnCalls, fnLog, slept, baseline, up2, remote, adm>>

\* the settle timer fires; the first result returned after two accepted
\* triggers is remembered
SettleFires ==
    /\ up.pc = "settle"
    /\ up' = UploadOnSettle(up)
    /\ baseline' =
          IF /\ up'.pc = "returned" /\ baseline = {}
             /\ up'.previewLog = "ok" /\ up'.publishLog = "ok"
          THEN up'.result ELSE baseline
    /\ UNCHANGED <<rx, fnCalls, fnLog, slept, up2, remote, adm>>

Init ==
    /\ rx = RetryIdle
    /\ fnCalls = 0
    /\ fnLog = <<>>
    /\ slept = <<>>
    /\ up \in { UpIdle(a, f) : a \in UploadArgs, f \in LocalFiles }
    /\ baseline = {}
    /\ up2 = NoCall
    /\ remote = RemoteEmpty
    /\ adm = AdmIdle

Next == Invoke \/ FetchSettles \/ BackoffFires \/ SettleFires

Spec == Init /\ [][Next]_vars

\* Every transport call settles and every timer fires: a pending fetch, backoff
\* timer or settle timer is eventually served. Calls of the handler are up to
\* its caller.
SpecFair ==
    /\ Spec
    /\ WF_vars(FetchSettles)
    /\ WF_vars(BackoffFires)
    /\ WF_vars(SettleFires)

----------------------------------------------------------------------------
(* The specification of the retry harness *)

InitRetry ==
    /\ \E R \in 0..MaxRetriesBound, d \in InitialDelays : rx = RetryStart(R, d)
    /\ fnCalls = CallsFn(rx)
    /\ fnLog = <<>>
    /\ slept = <<>>
    /\ up = NoCall
    /\ baseline = {}
    /\ up2 = NoCall
    /\ remote = RemoteEmpty
    /\ adm = AdmIdle

NextRetry == FnSettles \/ BackoffElapses

SpecRetry == InitRetry /\ [][NextRetry]_vars

----------------------------------------------------------------------------
(* Vocabulary of the properties *)

\* the substrings that mark an error message as a transient network failure
TransientIndicators == { "Failed to fetch", "SSL", "TLS", "Network", "ECONNRESET" }

ClassifiedTransient(message) == \E p \in TransientIndicators : Includes(message, p)

\* every call of fn so far has failed with a transient error
AllTransientFailures ==
    \A i \in 1..Len(fnLog) : ~fnLog[i].ok /\ ClassifiedTransient(fnLog[i].message)

\* how often event e occurs in the trace of the uploadAsset invocation
Count(e) == Cardinality({i \in 1..Len(up.trace) : up.trace[i] = e})

----------------------------------------------------------------------------
(* Properties of retryWithBackoff, under SpecRetry *)

\* C1: when every call of fn fails with an error classified transient, no more
\* than R+1 calls are ever made, the error is propagated exactly when R+1 calls
\* have failed, and with R = 0 that is after one call and no wait.
C1_TransientFailuresInvokeRPlus1 ==
    AllTransientFailures =>
        /\ fnCalls <= rx.maxRetries + 1
        /\ (rx.pc = "thrown") <=> (Len(fnLog) = rx.maxRetries + 1)
        /\ rx.pc = "thrown" => fnCalls = rx.maxRetries + 1
        /\ (rx.maxRetries = 0 /\ rx.pc = "thrown") => (fnCalls = 1 /\ slept = <<>>)

C1_Witness ==
    /\ rx.pc = "thrown" /\ rx.maxRetries = 3 /\ fnCalls = 4
    /\ Len(fnLog) = 4 /\ AllTransientFailures
    /\ {fnLog[i].message : i \in 1..4} =
          { "Failed to fetch", "ERR_SSL_BAD_RECORD_MAC_ALERT",
            "Network request failed", "read ECONNRESET" }

\* C2: a call of fn that fails with an error not classified transient is the
\* last call: the executor has thrown that same error and fn has been called no
\* further time, whatever attempts remain; if it was the first call, fn was
\* called exactly once.
C2_NonTransientNeverRetried ==
    \A i \in 1..Len(fnLog) :
        (~fnLog[i].ok /\ ~ClassifiedTransient(fnLog[i].message)) =>
            /\ i = Len(fnLog)
            /\ fnCalls = i
            /\ rx.pc = "thrown"
            /\ rx.error = fnLog[i].message

C2_Witness ==
    /\ rx.pc = "thrown" /\ rx.maxRetries = 3 /\ rx.attempt = 0 /\ fnCalls = 1
    /\ fnLog = << Rejected("network timeout") >>

\* C3: a call of fn that succeeds, as call k+1 after k transient failures, ends
\* the invocation: its value is returned, fn has been called exactly k+1 times,
\* and only the k waits between the calls have been made.
C3_SuccessOnAttemptK ==
    \A i \in 1..Len(fnLog) :
        fnLog[i].ok =>
            /\ i = Len(fnLog)
            /\ i <= rx.maxRetries + 1
            /\ \A j \in 1..(i - 1) : ~fnLog[j].ok /\ ClassifiedTransient(fnLog[j].message)
            /\ fnCalls = i
            /\ rx.pc = "returned"
            /\ rx.value = fnLog[i].value
            /\ Len(slept) = i - 1

C3_Witness ==
    /\ rx.pc = "returned" /\ rx.value = "v2" /\ fnCalls = 3
    /\ fnLog = << Rejected("Network request failed"),
                  Rejected("Network request failed"), Fulfilled("v2") >>

\* C4: the wait after attempt i (0-indexed) is initialDelay * 2^i, both the
\* waits made and the one being made, and the waits of one invocation are
\* strictly increasing.
C4_ExponentialBackoff ==
    /\ \A i \in 1..Len(slept) : slept[i] = rx.initialDelay * 2^(i - 1)
    /\ rx.pc = "sleep" => rx.delay = rx.initialDelay * 2^rx.attempt
    /\ \A i, j \in 1..Len(slept) : i < j => slept[i] < slept[j]

C4_Witness ==
    /\ rx.initialDelay = 500 /\ slept = <<500, 1000, 2000>>

\* C5: an invocation that has ended has returned the value of the one call of
\* fn that succeeded, the last one, or has thrown the error of the last call of
\* fn, none of whose calls succeeded.
C5_FirstSuccessOrLastError ==
    rx.pc \in {"returned", "thrown"} =>
        /\ Len(fnLog) >= 1
        /\ \A j \in 1..(Len(fnLog) - 1) : ~fnLog[j].ok
        /\ rx.pc = "returned" =>
              (fnLog[Len(fnLog)].ok /\ rx.value = fnLog[Len(fnLog)].value)
        /\ rx.pc = "thrown" =>
              (~fnLog[Len(fnLog)].ok /\ rx.error = fnLog[Len(fnLog)].message)

C5_Witness ==
    /\ rx.pc = "thrown" /\ rx.maxRetries = 2 /\ Len(fnLog) = 3
    /\ AllTransientFailures
    /\ fnLog[1].message = "Failed to fetch"
    /\ fnLog[3].message = "read ECONNRESET"
    /\ rx.error = "read ECONNRESET"

----------------------------------------------------------------------------
(* Properties of uploadAsset, under Spec *)

\* the console line of a non-2xx answer with status s
FailedLog(s) == "failed " \o ToString(s)

IsFailedLog(l) == \E s \in Statuses : l = FailedLog(s)

\* the last attempt a step is allowed has been rejected with a transient error
Exhausted(step, log, maxRetries) ==
    /\ Count(step) = maxRetries + 1
    /\ ClassifiedTransient(log)
    /\ ~(up.pc = "fetch" /\ up.step = step)

\* C6: once the upload has been rejected with a transient error on its fourth
\* attempt (max 3 retries), uploadAsset has thrown an error, there is no
\* result, and neither preview nor publish has been called.
C6_UploadExhaustedIsFatal ==
    Exhausted("upload", up.uploadLog, 3) =>
        /\ up.pc = "thrown"
        /\ up.error # Undefined
        /\ up.result = {}
        /\ Count("preview") = 0
        /\ Count("publish") = 0

C6_Witness ==
    /\ Exhausted("upload", up.uploadLog, 3)
    /\ up.trace = <<"read", "upload", "backoff", "upload", "backoff", "upload",
                    "backoff", "upload">>
    /\ up.timers = <<1000, 2000, 4000>>
    /\ up.pc = "thrown"

C8_TriggerNon2xxInvisible ==
    /\ IsFailedLog(up.previewLog) =>
          \/ up.step = "preview" /\ up.pc = "settle"
          \/ up.step = "publish" /\ Count("publish") >= 1
    /\ IsFailedLog(up.publishLog) =>
          up.step = "publish" /\ up.pc \in {"settle", "returned"}
    /\ up.pc = "returned" =>
          /\ Cardinality(up.result) = 1
          /\ \A r \in up.result : r.success = TRUE
          /\ baseline # {} => up.result = baseline

C8_Witness ==
    /\ up.pc = "returned" /\ up.nth = 2
    /\ baseline # {} /\ up.result = baseline
    /\ up.uploadLog = "ok"
    /\ up.previewLog = FailedLog(404)
    /\ up.publishLog = FailedLog(500)

\* C9: once the preview trigger, or the publish trigger, has been rejected with
\* a transient error on its third attempt (max 2 retries), uploadAsset does
\* not throw: the failure is swallowed.
C9_TriggerExhaustedSwallowed ==
    /\ Exhausted("preview", up.previewLog, 2) => up.pc # "thrown"
    /\ Exhausted("publish", up.publishLog, 2) => up.pc # "thrown"

\* C10: when the local file cannot be read, a call of uploadAsset reads once,
\* issues no request and sets no timer, and ends with a thrown error and no
\* result.
C10_ReadFailureIsFatal ==
    (~up.file.exists /\ up.nth >= 1) =>
        /\ up.pc = "thrown"
        /\ up.error # Undefined
        /\ up.result = {}
        /\ up.trace = <<"read">>
        /\ up.timers = <<>>

C10_Witness ==
    /\ ~up.file.exists /\ up.nth = 1 /\ up.pc = "thrown"
    /\ up.error = "Failed to upload asset to DA: ENOENT: no such file or directory, "
                      \o "open './dam/img.png'"

\* the diagnostic the catch block of uploadAsset writes for network failures
IsNetworkDiagnostic(message) ==
    /\ Includes(message, "Network error uploading to DA after multiple retries")
    /\ Includes(message, "SSL/TLS issue")
    /\ Includes(message, "Network connectivity problem")
    /\ Includes(message, "DA API rate limiting")
    /\ Includes(message, "Server connection limit")

\* C11: an error that leaves uploadAsset carries the network diagnostic if and
\* only if the error caught is a transient network failure as the retrying
\* executor classifies it; any other is the caught message prefixed by
\* 'Failed to upload asset to DA: '.
C11_DiagnosticIffTransient ==
    up.pc = "thrown" =>
        /\ IsNetworkDiagnostic(up.error) <=> ClassifiedTransient(up.caught)
        /\ ~ClassifiedTransient(up.caught) =>
              up.error = "Failed to upload asset to DA: " \o up.caught

\* the content type the table documents for an extension
DocumentedMime(ext) ==
    CASE ext = "png" -> "image/png"
      [] ext \in {"jpg", "jpeg"} -> "image/jpeg"
      [] ext = "gif" -> "image/gif"
      [] ext = "webp" -> "image/webp"
      [] ext = "svg" -> "image/svg+xml"
      [] ext = "pdf" -> "application/pdf"
      [] ext = "mp4" -> "video/mp4"
      [] ext = "webm" -> "video/webm"
      [] OTHER -> "application/octet-stream"

\* C12: the content type of a result is the one supplied, or else the one the
\* table documents for the extension of the file name, which is
\* 'application/octet-stream' for every extension the table does not list.
C12_ContentTypeResolution ==
    \A r \in up.result :
        r.contentType =
            IF up.args.contentType # Undefined THEN up.args.contentType
            ELSE DocumentedMime(toLowerCase(SplitPop(up.args.localFilePath, ".")))

\* the positions of event e in the trace of the uploadAsset invocation
Positions(e) == {i \in 1..Len(up.trace) : up.trace[i] = e}

\* the timer that trace position k waited: its rank among the timer events
TimerAt(k) ==
    up.timers[Cardinality({i \in 1..k : up.trace[i] \in {"backoff", "settle"}})]

\* C13: the events of one invocation are ordered local read, upload attempts,
\* preview attempts, the 1000 ms settle wait, publish attempts, the 800 ms
\* settle wait, result: every preview follows every upload and a successful
\* one, every publish follows a settle wait that follows every preview, a
\* backoff wait lies between two attempts of one step, and at most one request
\* is in flight, exactly while the invocation awaits a fetch.
C13_StrictlySequential ==
    /\ Positions("read") = (IF up.trace = <<>> THEN {} ELSE {1})
    /\ \A i \in Positions("upload"), j \in Positions("preview") : i < j
    /\ Positions("preview") # {} => up.uploadLog = "ok"
    /\ \A j \in Positions("publish") :
          \E k \in Positions("settle") :
              /\ k < j
              /\ TimerAt(k) = 1000
              /\ \A i \in Positions("preview") : i < k
    /\ \A k \in Positions("settle") :
          /\ up.trace[k - 1] \in {"preview", "publish"}
          /\ TimerAt(k) = (IF up.trace[k - 1] = "preview" THEN 1000 ELSE 800)
          /\ k < Len(up.trace) => up.trace[k + 1] = "publish"
    /\ \A k \in Positions("backoff") :
          /\ up.trace[k - 1] \in {"upload", "preview", "publish"}
          /\ k < Len(up.trace) => up.trace[k + 1] = up.trace[k - 1]
    /\ up.pc = "returned" =>
          /\ up.trace[Len(up.trace)] = "settle"
          /\ Cardinality(Positions("settle")) = 2
          /\ Positions("publish") # {}
    /\ Len(up.timers) = Cardinality(Positions("backoff") \cup Positions("settle"))
    /\ up.inFlight \in {0, 1}
    /\ up.inFlight = 1 <=> up.pc = "fetch"

C13_Witness ==
    /\ up.pc = "returned"
    /\ up.trace = <<"read", "upload", "backoff", "upload", "preview", "backoff",
                    "preview", "settle", "publish", "settle">>
    /\ up.timers = <<1000, 500, 1000, 800>>

\* C14 as claimed: the transport is called at most 3 times for each of the
\* three remote steps of one invocation.
C14_AtMostThreeCallsPerStep ==
    /\ Count("upload") <= 3
    /\ Count("preview") <= 3
    /\ Count("publish") <= 3

\* C14 as amended: the transport is called at most 4 times for the upload (3
\* retries after the first attempt) and at most 3 times for each of preview
\* and publish (2 retries), whatever failures the transport produces.
C14_CallsPerStepBounded ==
    /\ Count("upload") <= 4
    /\ Count("preview") <= 3
    /\ Count("publish") <= 3

C14_Witness ==
    /\ Count("upload") = 4 /\ Count("preview") = 3 /\ Count("publish") = 3
    /\ up.pc = "returned"

\* C15: in every state of one executor invocation, for any behaviour of fn,
\* 0 <= attempt <= R and fn has been called at most R+1 times.
C15_AttemptWithinBounds ==
    /\ 0 <= rx.attempt
    /\ rx.attempt <= rx.maxRetries
    /\ fnCalls <= rx.maxRetries + 1
    /\ fnCalls = rx.attempt + 1

C15_Witness ==
    /\ rx.maxRetries = 3 /\ rx.attempt = 3 /\ fnCalls = 4 /\ rx.pc = "fn"
    /\ \E i \in 1..Len(fnLog) : fnLog[i].message = "read ECONNRESET"

RECURSIVE Sum(_)
Sum(seq) == IF seq = <<>> THEN 0 ELSE seq[1] + Sum(Tail(seq))

\* C17: every wait made lies between two calls of fn; an invocation that has
\* ended made no wait after its last call, and one that ended by exhausting
\* its R retries waited R times, initialDelay * (2^R - 1) in total.
C17_WaitsOnlyBetweenAttempts ==
    /\ Len(slept) = fnCalls - 1
    /\ rx.pc \in {"returned", "thrown"} =>
          /\ Len(slept) = Len(fnLog) - 1
          /\ Len(slept) = rx.attempt
          /\ rx.delay = 0
    /\ (rx.pc = "thrown" /\ Len(fnLog) = rx.maxRetries + 1) =>
          /\ Len(slept) = rx.maxRetries
          /\ Sum(slept) = rx.initialDelay * (2^rx.maxRetries - 1)

C17_Witness ==
    /\ rx.pc = "thrown" /\ rx.maxRetries = 3 /\ rx.initialDelay = 1000
    /\ slept = <<1000, 2000, 4000>> /\ Sum(slept) = 7000
    /\ Len(fnLog) = 4

\* the console log of the step the invocation is in
StepLog ==
    CASE up.step = "upload" -> up.uploadLog
      [] up.step = "preview" -> up.previewLog
      [] up.step = "publish" -> up.publishLog
      [] OTHER -> "none"

\* C19: a non-2xx answer of the preview or of the publish endpoint ends the
\* step without a throw and without a further call (one call when it answers
\* the first attempt), and a backoff wait is made only after a rejection
\* classified transient.
C19_TriggerNon2xxNotRetried ==
    /\ \A step \in {"preview", "publish"} :
          IsFailedLog(IF step = "preview" THEN up.previewLog ELSE up.publishLog) =>
              /\ ~(up.step = step /\ up.pc \in {"thrown", "backoff", "fetch"})
              /\ \A k \in Positions(step) :
                    k < Len(up.trace) => up.trace[k + 1] \in {"backoff", "settle"}
              /\ LET last == CHOOSE k \in Positions(step) :
                                 \A j \in Positions(step) : j <= k
                 IN last < Len(up.trace) => up.trace[last + 1] = "settle"
              /\ Count(step) =
                    1 + Cardinality({k \in Positions("backoff") : up.trace[k - 1] = step})
    /\ up.pc = "backoff" => ClassifiedTransient(StepLog)

C19_Witness ==
    /\ up.previewLog = FailedLog(500) /\ up.publishLog = FailedLog(404)
    /\ up.trace = <<"read", "upload", "preview", "settle", "publish", "settle">>
    /\ up.pc = "returned"

\* C16: provided every transport call settles and every timer fires, an
\* invocation that is under way eventually ends, with a result or with a
\* thrown error, for every sequence of transport outcomes.
C16_InvocationTerminates ==
    (up.pc \in {"fetch", "backoff", "settle"}) ~> (up.pc \in {"returned", "thrown"})

C16_Witness ==
    /\ up.pc = "returned"
    /\ up.timers = <<1000, 2000, 4000, 500, 1000, 1000, 500, 1000, 800>>
    /\ Count("upload") = 4 /\ Count("preview") = 3 /\ Count("publish") = 3

----------------------------------------------------------------------------
(* Two concurrent calls of the handler for one org/repo/path.               *)
(*                                                                          *)
(* The remote service is outside the repository; of it the model keeps      *)
(* what the requests of uploadAsset ask for: an accepted upload replaces    *)
(* the source stored at the path, an accepted preview trigger copies the    *)
(* source to the preview, an accepted publish trigger copies the preview to *)
(* live. A request takes effect when its exchange settles.                  *)

\* the multipart body of the upload request of invocation u
Body(u) == [file |-> u.args.localFilePath, type |-> u.mimeType, size |-> u.size]

\* the remote state after the request of invocation u (named who) settled as f
RemoteApply(rem, u, who, f) ==
    IF f.rejected \/ ~Ok(f.status) THEN rem
    ELSE IF u.step = "upload" THEN [rem EXCEPT !.source = {Body(u)}]
    ELSE IF u.step = "preview"
         THEN [rem EXCEPT !.preview = rem.source, !.previewBy = who]
    ELSE [rem EXCEPT !.live = rem.preview, !.liveBy = who]

\* the answers the transport gives in the concurrent runs
PairFetchOutcomes ==
    { Response(200), Rejection("read ECONNRESET") }

\* mutant: the second call is held back while the first is under way
PairInvokeBExcluded ==
    /\ up2.pc = "idle"
    /\ up.pc \in {"idle", "returned", "thrown"}
    /\ up2' = UploadInvoke(up2)
    /\ UNCHANGED <<rx, fnCalls, fnLog, slept, baseline, up, remote, adm>>

PairInvokeA ==
    /\ up.pc = "idle"
    /\ up' = UploadInvoke(up)
    /\ UNCHANGED <<rx, fnCalls, fnLog, slept, baseline, up2, remote, adm>>

PairInvokeB ==
    /\ up2.pc = "idle"
    /\ up2' = UploadInvoke(up2)
    /\ UNCHANGED <<rx, fnCalls, fnLog, slept, baseline, up, remote, adm>>

PairFetchSettlesA ==
    /\ up.pc = "fetch"
    /\ \E f \in PairFetchOutcomes :
          /\ up' = UploadOnFetch(up, f)
          /\ remote' = RemoteApply(remote, up, "A", f)
    /\ UNCHANGED <<rx, fnCalls, fnLog, slept, baseline, up2, adm>>

PairFetchSettlesB ==
    /\ up2.pc = "fetch"
    /\ \E f \in PairFetchOutcomes :
          /\ up2' = UploadOnFetch(up2, f)
          /\ remote' = RemoteApply(remote, up2, "B", f)
    /\ UNCHANGED <<rx, fnCalls, fnLog, slept, baseline, up, adm>>

PairTimerFiresA ==
    /\ up.pc \in {"backoff", "settle"}
    /\ up' = IF up.pc = "backoff" THEN UploadOnBackoff(up) ELSE UploadOnSettle(up)
    /\ UNCHANGED <<rx, fnCalls, fnLog, slept, baseline, up2, remote, adm>>

PairTimerFiresB ==
    /\ up2.pc \in {"backoff", "settle"}
    /\ up2' = IF up2.pc = "backoff" THEN UploadOnBackoff(up2) ELSE UploadOnSettle(up2)
    /\ UNCHANGED <<rx, fnCalls, fnLog, slept, baseline, up, remote, adm>>

\* the two calls name the same org, repo and path and read different files
InitPair ==
    /\ rx = RetryIdle
    /\ fnCalls = 0
    /\ fnLog = <<>>
    /\ slept = <<>>
    /\ baseline = {}
    /\ \E a \in UploadArgs, b \in UploadArgs, f \in LocalFiles :
          /\ a.org = b.org /\ a.repo = b.repo /\ a.path = b.path
          /\ a.localFilePath = "./dam/img.png" /\ b.localFilePath = "./dam/Scan.PDF"
          /\ a.contentType = Undefined /\ b.contentType = Undefined
          /\ f.exists
          /\ up = UpIdle(a, f)
          /\ up2 = UpIdle(b, f)
    /\ remote = RemoteEmpty
    /\ adm = AdmIdle

NextPair ==
    \/ PairInvokeA \/ PairInvokeB
    \/ PairFetchSettlesA \/ PairFetchSettlesB
    \/ PairTimerFiresA \/ PairTimerFiresB

SpecPair == InitPair /\ [][NextPair]_vars

\* C18: nothing excludes one invocation while the other is under way: a call
\* not yet made can start in every state of the other; the remote holds the
\* body of one of the two uploads, whichever invocation's trigger copied it;
\* and every invocation that returns reports success: true for its own file.
C18_NotMutuallyExcluded ==
    /\ up.pc = "idle" => ENABLED PairInvokeA
    /\ up2.pc = "idle" => ENABLED PairInvokeB
    /\ remote.source \cup remote.preview \cup remote.live \subseteq {Body(up), Body(up2)}
    /\ \A r \in up.result : r.success = TRUE /\ r.size = up.size
    /\ \A r \in up2.result : r.success = TRUE /\ r.size = up2.size

\* the upload of B landed after the upload of A and before A's triggers, which
\* copied B's bytes to preview and live; both invocations returned success
C18_Witness ==
    /\ up.pc = "returned" /\ up2.pc = "returned"
    /\ \A r \in up.result \cup up2.result : r.success = TRUE
    /\ up.previewLog = "ok" /\ up.publishLog = "ok"
    /\ remote.previewBy = "A" /\ remote.liveBy = "A"
    /\ remote.live = {Body(up2)}
    /\ Body(up2) # Body(up)

----------------------------------------------------------------------------
(* common/utils.js: parseResponseBody, daAdminRequest,                      *)
(* daAdminResponseFormat, formatURL; and getSource, createSource,           *)
(* deleteSource, which call them.                                           *)

(* JSON values: a string, null, or an object whose members are strings.     *)
(* These are the JSON texts the bounded responses carry; every other text   *)
(* among them is not JSON.                                                  *)
JString(s) == [kind |-> "string", str |-> s, members |-> <<>>]
JNull == [kind |-> "null", str |-> "", members |-> <<>>]
JObject(ms) == [kind |-> "object", str |-> "", members |-> ms]

\* the character of s at position i ("" beyond the end)
CharAt(s, i) == IF 1 <= i /\ i <= Len(s) THEN SubSeq(s, i, i) ELSE ""

WhiteSpace == { " ", "\t", "\n", "\r" }

RECURSIVE SkipWhiteSpace(_, _)
SkipWhiteSpace(s, i) ==
    IF CharAt(s, i) \in WhiteSpace THEN SkipWhiteSpace(s, i + 1) ELSE i

\* the position of the quote that closes a string opened before i (0: none)
RECURSIVE ClosingQuote(_, _)
ClosingQuote(s, i) ==
    IF i > Len(s) THEN 0
    ELSE IF CharAt(s, i) = "\"" THEN i
    ELSE ClosingQuote(s, i + 1)

SyntaxError == [ok |-> FALSE, value |-> JNull, next |-> 0]
Parsed(v, next) == [ok |-> TRUE, value |-> v, next |-> next]

\* a JSON string starting at i
ParseString(s, i) ==
    LET close == ClosingQuote(s, i + 1)
    IN  IF CharAt(s, i) = "\"" /\ close > 0
        THEN Parsed(JString(SubSeq(s, i + 1, close - 1)), close + 1)
        ELSE SyntaxError

\* the members of an object, the first of them starting at i
RECURSIVE ParseMembers(_, _, _)
ParseMembers(s, i, acc) ==
    LET key == ParseString(s, SkipWhiteSpace(s, i))
        colon == SkipWhiteSpace(s, key.next)
        val == ParseString(s, SkipWhiteSpace(s, colon + 1))
        after == SkipWhiteSpace(s, val.next)
        ms == Append(acc, [key |-> key.value.str, value |-> val.value.str])
    IN  IF ~key.ok \/ CharAt(s, colon) # ":" \/ ~val.ok THEN SyntaxError
        ELSE IF CharAt(s, after) = "}" THEN Parsed(JObject(ms), after + 1)
        ELSE IF CharAt(s, after) = "," THEN ParseMembers(s, after + 1, ms)
        ELSE SyntaxError

\* a JSON value starting at i, after white space
ParseValue(s, i) ==
    LET at == SkipWhiteSpace(s, i)
        first == SkipWhiteSpace(s, at + 1)
    IN  IF CharAt(s, at) = "\"" THEN ParseString(s, at)
        ELSE IF at + 3 <= Len(s) /\ SubSeq(s, at, at + 3) = "null"
             THEN Parsed(JNull, at + 4)
        ELSE IF CharAt(s, at) = "{"
             THEN IF CharAt(s, first) = "}" THEN Parsed(JObject(<<>>), first + 1)
                  ELSE ParseMembers(s, first, <<>>)
        ELSE SyntaxError

\* JSON.parse(s): a value, or a SyntaxError (ok = FALSE)
JSONParse(s) ==
    LET v == ParseValue(s, 1)
    IN  IF v.ok /\ SkipWhiteSpace(s, v.next) = Len(s) + 1 THEN v ELSE SyntaxError

Quote(s) == "\"" \o s \o "\""

\* the members of an object written one after the other
RECURSIVE JoinMembers(_, _, _, _)
JoinMembers(ms, lead, colon, sep) ==
    IF ms = <<>> THEN ""
    ELSE lead \o Quote(Head(ms).key) \o colon \o Quote(Head(ms).value)
         \o (IF Len(ms) > 1 THEN sep ELSE "")
         \o JoinMembers(Tail(ms), lead, colon, sep)

\* JSON.stringify(v)
JSONStringify(v) ==
    IF v.kind = "string" THEN Quote(v.str)
    ELSE IF v.kind = "null" THEN "null"
    ELSE "{" \o JoinMembers(v.members, "", ":", ",") \o "}"

\* JSON.stringify(v, null, 2)
JSONStringifyIndented(v) ==
    IF v.kind = "string" THEN Quote(v.str)
    ELSE IF v.kind = "null" THEN "null"
    ELSE IF v.members = <<>> THEN "{}"
    ELSE "{\n" \o JoinMembers(v.members, "  ", ": ", ",\n") \o "\n}"

\* response.headers.get("content-type"), response.status and the body text
AdmResponse(status, contentType, body) ==
    [rejected |-> FALSE, status |-> status, contentType |-> contentType,
     body |-> body, message |-> ""]

BodyResolved(v) == [rejected |-> FALSE, value |-> v, message |-> ""]
BodyRejected(m) == [rejected |-> TRUE, value |-> JNull, message |-> m]

\* mutant: a body that is not JSON makes the parse error go out
parseResponseBodyStrict(response, readable) ==
    IF response.contentType # Undefined
       /\ Includes(response.contentType, "application/json")
    THEN IF readable /\ JSONParse(response.body).ok
         THEN BodyResolved(JSONParse(response.body).value)
         ELSE BodyRejected("Unexpected end of JSON input")
    ELSE IF readable THEN BodyResolved(JString(response.body))
         ELSE BodyRejected("terminated")

\* parseResponseBody(response); readable: the body stream is read to its end
parseResponseBody(response, readable) ==
    IF response.contentType # Undefined
       /\ Includes(response.contentType, "application/json")
    THEN IF readable /\ JSONParse(response.body).ok
         THEN BodyResolved(JSONParse(response.body).value)
         ELSE BodyResolved(JObject(<<>>))
    ELSE IF readable THEN BodyResolved(JString(response.body))
         ELSE BodyRejected("terminated")

\* daAdminResponseFormat(data)
daAdminResponseFormat(data) ==
    [content |-> << [type |-> "text", text |-> JSONStringifyIndented(data)] >>]

\* formatURL(api, org, repo, path, ext), without the ADMIN_API_URL it starts with
formatURL(api, org, repo, path, ext) ==
    LET startsWithSlash == Len(path) >= 1 /\ SubSeq(path, 1, 1) = "/"
        stripped == IF startsWithSlash THEN SubSeq(path, 2, Len(path)) ELSE path
        expectedExt == "." \o ext
        endsWithExt ==
            /\ Len(stripped) >= Len(expectedExt)
            /\ SubSeq(stripped, Len(stripped) - Len(expectedExt) + 1, Len(stripped))
                  = expectedExt
        cleanPath == IF ~Falsy(ext) /\ ~endsWithExt
                     THEN stripped \o expectedExt ELSE stripped
    IN  "/" \o api \o "/" \o org \o "/" \o repo \o "/" \o cleanPath

\* the options getSource, createSource and deleteSource pass to daAdminRequest
RequestOptions(op) ==
    IF op = "createSource" THEN [method |-> "POST"]
    ELSE IF op = "deleteSource" THEN [method |-> "DELETE"]
    ELSE [method |-> Undefined]

\* the operation is called: formatURL, then daAdminRequest up to its fetch
AdmStart(a, op, args) ==
    [a EXCEPT !.op = op,
              !.pc = "fetch",
              !.calls = a.calls + 1,
              !.url = formatURL("source", args.org, args.repo, args.path, args.ext),
              !.method = IF Falsy(RequestOptions(op).method) THEN "GET"
                         ELSE RequestOptions(op).method]

\* await fetch(url, init) settles: a rejection leaves daAdminRequest and the
\* operation's catch rethrows it; a response goes on to parseResponseBody
AdmOnFetch(a, f) ==
    IF f.rejected
    THEN [a EXCEPT !.pc = "thrown", !.error = f.message]
    ELSE [a EXCEPT !.pc = "body", !.response = {f}]

\* await parseResponseBody(response) settles, and daAdminRequest and the
\* operation run to their end
AdmOnBody(a, response, readable) ==
    LET b == parseResponseBody(response, readable)
        read == [a EXCEPT !.bodyRead = IF readable THEN "ok" ELSE "failed"]
        errorMessage == IF b.value.kind = "string" THEN b.value.str
                        ELSE JSONStringify(b.value)
    IN  IF b.rejected
        THEN [read EXCEPT !.pc = "thrown", !.error = b.message]
        ELSE IF ~Ok(response.status)
        THEN [read EXCEPT !.pc = "thrown",
                          !.error = ToString(response.status) \o ": " \o errorMessage]
        ELSE [read EXCEPT !.pc = "returned",
                          !.result = {daAdminResponseFormat(b.value)}]

\* the calls of the three tools and the answers of the transport
AdmOps == { "getSource", "createSource", "deleteSource" }
AdmPaths == { "/docs/page", "docs/page.html" }
AdmExts == { "html", "json" }
AdmArgs == [org : Orgs, repo : Repos, path : AdmPaths, ext : AdmExts]
AdmContentTypes ==
    { Undefined, "application/json", "application/json; charset=utf-8", "text/html" }
AdmBodies ==
    { "", "{", "{}", "{\"error\":\"x\"}", "{ \"error\" : \"x\" }", "\"gone\"",
      "Not Found" }
AdmFetchOutcomes ==
    { AdmResponse(s, t, b) : s \in Statuses, t \in AdmContentTypes, b \in AdmBodies }
    \cup { Rejection("fetch failed"), Rejection("read ECONNRESET") }

\* a tool handler calls getSource, createSource or deleteSource
AdmInvoke ==
    /\ adm.pc = "idle"
    /\ \E op \in AdmOps, args \in AdmArgs : adm' = AdmStart(adm, op, args)
    /\ UNCHANGED <<rx, fnCalls, fnLog, slept, up, baseline, up2, remote>>

\* the fetch of daAdminRequest settles
AdmFetchSettles ==
    /\ adm.pc = "fetch"
    /\ \E f \in AdmFetchOutcomes : adm' = AdmOnFetch(adm, f)
    /\ UNCHANGED <<rx, fnCalls, fnLog, slept, up, baseline, up2, remote>>

\* the body of the response is read, or the read fails
AdmBodySettles ==
    /\ adm.pc = "body"
    /\ \E r \in adm.response, readable \in BOOLEAN :
          adm' = AdmOnBody(adm, r, readable)
    /\ UNCHANGED <<rx, fnCalls, fnLog, slept, up, baseline, up2, remote>>

InitAdmin ==
    /\ rx = RetryIdle
    /\ fnCalls = 0
    /\ fnLog = <<>>
    /\ slept = <<>>
    /\ up = NoCall
    /\ baseline = {}
    /\ up2 = NoCall
    /\ remote = RemoteEmpty
    /\ adm = AdmIdle

NextAdmin == AdmInvoke \/ AdmFetchSettles \/ AdmBodySettles

SpecAdmin == InitAdmin /\ [][NextAdmin]_vars

\* a response declared as JSON
DeclaredJSON(contentType) ==
    contentType # Undefined /\ Includes(contentType, "application/json")

\* the bodies of the bounded responses that are empty or not JSON
EmptyOrInvalidJSON == { "", "{", "Not Found" }

\* what the error message carries of a body declared as JSON: a string
\* itself, another value serialised, {} for an empty or invalid body
ParsedBodyText ==
    [ b \in AdmBodies |->
        IF b \in EmptyOrInvalidJSON \/ b = "{}" THEN "{}"
        ELSE IF b = "\"gone\"" THEN "gone"
        ELSE "{\"error\":\"x\"}" ]

\* the operation has come to its end
AdmSettled == adm.pc \in {"returned", "thrown"}

\* one HTTP call per operation, none before the call, no second one after a
\* rejection or an error status
OneCallNoRetry == adm.calls = (IF adm.pc = "idle" THEN 0 ELSE 1)

\* a 2xx response declared as JSON whose body is empty, invalid or not
\* read to its end gives the empty object as the result, no error
EmptyJSONIsEmptyObject ==
    \A r \in adm.response :
        ( /\ AdmSettled /\ Ok(r.status) /\ DeclaredJSON(r.contentType)
          /\ (r.body \in EmptyOrInvalidJSON \/ adm.bodyRead = "failed") )
        => /\ adm.pc = "returned"
           /\ adm.result = {[content |-> << [type |-> "text", text |-> "{}"] >>]}
           /\ adm.error = Undefined

\* C20 as stated: one call and no retry; empty or invalid JSON with a 2xx
\* status is the empty object; every non-2xx status makes the operation throw
\* '<status>: <body>', the body being the body of the response, and return
\* nothing.
C20_MessageIsStatusAndBody ==
    /\ OneCallNoRetry
    /\ EmptyJSONIsEmptyObject
    /\ \A r \in adm.response :
          (AdmSettled /\ ~Ok(r.status))
          => /\ adm.pc = "thrown"
             /\ adm.result = {}
             /\ adm.error = ToString(r.status) \o ": " \o r.body

\* C20, amended: one call and no retry; empty or invalid JSON with a 2xx
\* status is the empty object; every non-2xx status makes the operation throw
\* and return nothing, the message being '<status>: ' followed by the text of
\* the body when the response is not declared as JSON and its text was read,
\* and by the parsed body when it is declared as JSON: a string itself, any
\* other value serialised, {} when the body is empty, invalid or unread.
C20_MessageIsStatusAndParsedBody ==
    /\ OneCallNoRetry
    /\ EmptyJSONIsEmptyObject
    /\ \A r \in adm.response :
          (AdmSettled /\ ~Ok(r.status))
          => /\ adm.pc = "thrown"
             /\ adm.result = {}
             /\ DeclaredJSON(r.contentType)
                => adm.error = ToString(r.status) \o ": "
                     \o (IF adm.bodyRead = "failed" THEN "{}"
                         ELSE ParsedBodyText[r.body])
             /\ (~DeclaredJSON(r.contentType) /\ adm.bodyRead = "ok")
                => adm.error = ToString(r.status) \o ": " \o r.body

\* an error status with an empty body declared as JSON: the message "404: {}"
C20_Witness ==
    /\ adm.pc = "thrown"
    /\ adm.calls = 1
    /\ adm.result = {}
    /\ adm.error = "404: {}"
    /\ \E r \in adm.response :
          r.status = 404 /\ DeclaredJSON(r.contentType) /\ r.body = ""

====
